---- MODULE Spec2Model ----
(***************************************************************************)
(* repoDB parser (parser.py) and the mychem.info client                    *)
(* (MyChemInfoClient.py): batched name lookup, name correction of the      *)
(* table, the one-to-one assertion and the grouping into documents.        *)
(***************************************************************************)
EXTENDS Integers, Sequences, FiniteSets, TLC

\* ---------------------------------------------------------------- bounds
MaxRows == 3           \* rows of full.csv
MaxIds == 3            \* length of an identifier list handed to the client
MaxBatch == 3          \* largest explicit batch_size
DefaultBatchSize == 2  \* batch_size=1000 of the source, scaled to the tables above

\* ---------------------------------------------------------------- values
None == "None"         \* Python None (a missing cell, a 'notfound' answer)
NoBatchSize == 0       \* batch_size=None
NaN == -1              \* max() of an empty Series; compares unequal to 1

IdOrder == <<"DB00002", "DB00584", "DB12430">>     \* ascending, as groupby sorts
NameOrder == <<"cetuximab", "enalapril">>          \* ascending, as groupby sorts

Range(s) == {s[i] : i \in DOMAIN s}
Ids == Range(IdOrder)
Names == Range(NameOrder)

Max(S) == CHOOSE m \in S : \A x \in S : x <= m
Min(a, b) == IF a <= b THEN a ELSE b

Rows == [drug_name : Names, drugbank_id : Ids]
Tables == UNION {[1..n -> Rows] : n \in 0..MaxRows}
IdLists == UNION {[1..n -> Ids] : n \in 0..MaxIds}
BatchSizes == {NoBatchSize} \cup 1..MaxBatch

VARIABLES
    svc,                  \* mychem.info: drugbank id -> drugbank.name, or None for 'notfound'
    csv,                  \* rows of full.csv
    view,                 \* TRUE iff the Series that iterrows() yields aliases the frame
    pc,                   \* position of the program
    caller,               \* "load_data" or "client"
    repoDB_df,            \* the in-memory table
    drugbank_ids,         \* argument of batch_query_drugbank_names
    batch_size,           \* argument of batch_query_drugbank_names
    drugbank_id_batches,  \* the requests still to be made, in order
    id_name_map_batches,  \* the answers received so far
    id_name_map,          \* the value batch_query_drugbank_names returned
    posts,                \* payload of every POST issued so far
    one_to_one,           \* value of is_one_to_one in revise_drugbank_name
    docs                  \* documents yielded so far

vars == <<svc, csv, view, pc, caller, repoDB_df, drugbank_ids, batch_size,
          drugbank_id_batches, id_name_map_batches, id_name_map, posts,
          one_to_one, docs>>

\* ------------------------------------------------------- part 1: client
EmptyDict == [k \in {} |-> None]

DictPut(d, k, v) == [x \in DOMAIN d \cup {k} |-> IF x = k THEN v ELSE d[x]]

\* the JSON list the service answers a POST with: one entry per queried id
json_response(ids) == [i \in DOMAIN ids |-> [query |-> ids[i], name |-> svc[ids[i]]]]

\* {entry["query"]: ... for entry in json_response}: later entries overwrite
RECURSIVE DictOfEntries(_)
DictOfEntries(entries) ==
    IF entries = <<>> THEN EmptyDict
    ELSE LET n == Len(entries)
         IN DictPut(DictOfEntries(SubSeq(entries, 1, n - 1)),
                    entries[n].query, entries[n].name)

query_drugbank_names(ids) == DictOfEntries(json_response(ids))

IsSingleRequestOffByOne(ids, size) == size = NoBatchSize \/ Len(ids) <= size + 1

IsSingleRequest(ids, size) == size = NoBatchSize \/ Len(ids) <= size

BatchesDropTail(ids, size) ==
    [j \in 1..(Len(ids) \div size) |-> SubSeq(ids, (j - 1) * size + 1, j * size)]

BatchesOverlap(ids, size) ==
    [j \in 1..((Len(ids) + size - 1) \div size) |->
        SubSeq(ids, (j - 1) * size + 1, Min(j * size + 1, Len(ids)))]

\* [drugbank_ids[i:i+batch_size] for i in range(0, len(drugbank_ids), batch_size)]
Batches(ids, size) ==
    [j \in 1..((Len(ids) + size - 1) \div size) |->
        SubSeq(ids, (j - 1) * size + 1, Min(j * size, Len(ids)))]

\* ChainMap lookup: the first mapping that has the key answers
RECURSIVE ChainMapGet(_, _)
ChainMapGet(maps, k) ==
    IF k \in DOMAIN maps[1] THEN maps[1][k] ELSE ChainMapGet(Tail(maps), k)

\* dict(ChainMap(*id_name_map_batches))
DictOfChainMap(maps) ==
    [k \in UNION {DOMAIN maps[i] : i \in DOMAIN maps} |-> ChainMapGet(maps, k)]

Batched == ~IsSingleRequest(drugbank_ids, batch_size)

\* entry of batch_query_drugbank_names: the requests it is going to make
Requests(ids, size) ==
    IF IsSingleRequest(ids, size) THEN <<ids>> ELSE Batches(ids, size)

\* ----------------------------------------------- part 2: name correction
\* Series.unique(): distinct values in order of first appearance
RECURSIVE unique(_)
unique(s) ==
    IF s = <<>> THEN <<>>
    ELSE LET n == Len(s)
             u == unique(SubSeq(s, 1, n - 1))
         IN IF s[n] \in Range(u) THEN u ELSE Append(u, s[n])

Column(df, col) == [i \in DOMAIN df |-> df[i][col]]

\* the rows of df at the positions idx, in table order
RECURSIVE TakeRows(_, _)
TakeRows(df, idx) ==
    IF idx = {} THEN <<>>
    ELSE LET m == Max(idx) IN Append(TakeRows(df, idx \ {m}), df[m])

ApplyMapDropNotFound(df, m) ==
    TakeRows(df, {i \in DOMAIN df : ~(df[i].drugbank_id \in DOMAIN m
                                      /\ m[df[i].drugbank_id] = None)})

\* for _, row in iterrows(): if row.drugbank_id in id_name_map: row.drug_name = ...
ApplyMap(df, m) ==
    [i \in DOMAIN df |->
        IF df[i].drugbank_id \in DOMAIN m
        THEN [df[i] EXCEPT !.drug_name = m[df[i].drugbank_id]]
        ELSE df[i]]

\* df.drop_duplicates(subset=[col1, col2]): the first row of every pair stays
drop_duplicates(df, col1, col2) ==
    TakeRows(df, {i \in DOMAIN df :
        \A j \in 1..(i - 1) : ~(df[j][col1] = df[i][col1] /\ df[j][col2] = df[i][col2])})

\* df.groupby(key)[val].count().max(): groups of a missing key are dropped,
\* count() counts the cells that are not missing
CountMax(df, key, val) ==
    LET keys == Range(Column(df, key)) \ {None}
        count(k) == Cardinality({i \in DOMAIN df : df[i][key] = k /\ df[i][val] # None})
    IN IF keys = {} THEN NaN ELSE Max({count(k) : k \in keys})

is_one_to_one_injective_only(df, col1, col2) ==
    CountMax(drop_duplicates(df, col1, col2), col1, col2) = 1

is_one_to_one(df, col1, col2) ==
    LET d == drop_duplicates(df, col1, col2)
        is_injective == CountMax(d, col1, col2) = 1
        is_surjective == CountMax(d, col2, col1) = 1
    IN is_injective /\ is_surjective

\* ------------------------------------------------------- part 3: parser
\* every (drugbank_id, drug_name) in ascending order
AllKeys ==
    [j \in 1..(Len(IdOrder) * Len(NameOrder)) |->
        <<IdOrder[((j - 1) \div Len(NameOrder)) + 1],
          NameOrder[((j - 1) % Len(NameOrder)) + 1]>>]

GroupRows(df, key) ==
    {i \in DOMAIN df : df[i].drugbank_id = key[1] /\ df[i].drug_name = key[2]}

\* df.groupby(["drugbank_id", "drug_name"]): sorted keys, rows with a missing key dropped
GroupKeys(df) ==
    LET Present(key) == GroupRows(df, key) # {} IN SelectSeq(AllKeys, Present)

\* the indication entries of a group, each named by the position of its row
RECURSIVE SeqOfSet(_)
SeqOfSet(S) ==
    IF S = {} THEN <<>> ELSE LET m == Max(S) IN Append(SeqOfSet(S \ {m}), m)

\* RepoDBDoc(DrugEntry(*drug_tuple), indication_entries).to_dict()
to_dict(df, key) ==
    [_id |-> key[1], drugbank |-> key[1], name |-> key[2],
     indications |-> SeqOfSet(GroupRows(df, key))]

\* ---------------------------------------------------------------- steps
Init ==
    /\ svc \in [Ids -> Names \cup {None}]
    /\ csv = <<>>
    /\ view = FALSE
    /\ pc = "idle"
    /\ caller = "none"
    /\ repoDB_df = <<>>
    /\ drugbank_ids = <<>>
    /\ batch_size = NoBatchSize
    /\ drugbank_id_batches = <<>>
    /\ id_name_map_batches = <<>>
    /\ id_name_map = EmptyDict
    /\ posts = <<>>
    /\ one_to_one = FALSE
    /\ docs = <<>>

\* load_data up to the first request of revise_drugbank_name
LoadData ==
    /\ pc = "idle"
    /\ \E table \in Tables, aliases \in BOOLEAN :
        /\ csv' = table
        /\ view' = aliases
        /\ repoDB_df' = table
        /\ drugbank_ids' = unique(Column(table, "drugbank_id"))
    /\ batch_size' = DefaultBatchSize
    /\ drugbank_id_batches' = Requests(drugbank_ids', batch_size')
    /\ caller' = "load_data"
    /\ pc' = "post"
    /\ UNCHANGED <<svc, id_name_map_batches, id_name_map, posts, one_to_one, docs>>

\* batch_query_drugbank_names called on its own, up to its first request
BatchQuery ==
    /\ pc = "idle"
    /\ \E ids \in IdLists, size \in BatchSizes :
        /\ drugbank_ids' = ids
        /\ batch_size' = size
        /\ drugbank_id_batches' = Requests(ids, size)
    /\ caller' = "client"
    /\ pc' = "post"
    /\ UNCHANGED <<svc, csv, view, repoDB_df, id_name_map_batches, id_name_map,
                   posts, one_to_one, docs>>

\* a POST that raise_for_status() lets pass; after the last one the merge
PostOk ==
    /\ pc = "post"
    /\ LET k == Len(id_name_map_batches) + 1
           id_batch == drugbank_id_batches[k]
           answers == Append(id_name_map_batches, query_drugbank_names(id_batch))
       IN /\ posts' = Append(posts, id_batch)
          /\ id_name_map_batches' = answers
          /\ IF k = Len(drugbank_id_batches)
             THEN /\ id_name_map' = IF Batched THEN DictOfChainMap(answers) ELSE answers[1]
                  /\ pc' = IF caller = "load_data" THEN "revise" ELSE "returned"
             ELSE UNCHANGED <<id_name_map, pc>>
    /\ UNCHANGED <<svc, csv, view, caller, repoDB_df, drugbank_ids, batch_size,
                   drugbank_id_batches, one_to_one, docs>>

PostFailSwallowed ==
    /\ pc = "post"
    /\ posts' = Append(posts, drugbank_id_batches[Len(id_name_map_batches) + 1])
    /\ id_name_map' = DictOfChainMap(<<EmptyDict>> \o id_name_map_batches)
    /\ pc' = IF caller = "load_data" THEN "revise" ELSE "returned"
    /\ UNCHANGED <<svc, csv, view, caller, repoDB_df, drugbank_ids, batch_size,
                   drugbank_id_batches, id_name_map_batches, one_to_one, docs>>

\* a POST with an unsuccessful status: raise_for_status() raises HTTPError
PostFail ==
    /\ pc = "post"
    /\ posts' = Append(posts, drugbank_id_batches[Len(id_name_map_batches) + 1])
    /\ pc' = "http_error"
    /\ UNCHANGED <<svc, csv, view, caller, repoDB_df, drugbank_ids, batch_size,
                   drugbank_id_batches, id_name_map_batches, id_name_map,
                   one_to_one, docs>>

\* revise_drugbank_name after the lookup: the row loop and the assertion.
\* Whether `row.drug_name = ...` reaches the frame depends on pandas: the
\* Series of iterrows() aliases a frame held in one object block and is a copy
\* otherwise (and always under copy-on-write), so both outcomes are modelled.
Revise ==
    /\ pc = "revise"
    /\ repoDB_df' = IF view THEN ApplyMap(repoDB_df, id_name_map) ELSE repoDB_df
    /\ one_to_one' = is_one_to_one(repoDB_df', "drug_name", "drugbank_id")
    /\ pc' = IF one_to_one' THEN "groupby" ELSE "assert_error"
    /\ UNCHANGED <<svc, csv, view, caller, drugbank_ids, batch_size,
                   drugbank_id_batches, id_name_map_batches, id_name_map, posts, docs>>

\* the generator yields the document of the next group
Yield ==
    /\ pc = "groupby"
    /\ Len(docs) < Len(GroupKeys(repoDB_df))
    /\ docs' = Append(docs, to_dict(repoDB_df, GroupKeys(repoDB_df)[Len(docs) + 1]))
    /\ UNCHANGED <<svc, csv, view, pc, caller, repoDB_df, drugbank_ids, batch_size,
                   drugbank_id_batches, id_name_map_batches, id_name_map, posts,
                   one_to_one>>

\* the groups are exhausted: load_data has run to completion
Stop ==
    /\ pc = "groupby"
    /\ Len(docs) = Len(GroupKeys(repoDB_df))
    /\ pc' = "done"
    /\ UNCHANGED <<svc, csv, view, caller, repoDB_df, drugbank_ids, batch_size,
                   drugbank_id_batches, id_name_map_batches, id_name_map, posts,
                   one_to_one, docs>>

Next ==
    \/ LoadData
    \/ BatchQuery
    \/ PostOk
    \/ PostFail
    \/ Revise
    \/ Yield
    \/ Stop

Spec == Init /\ [][Next]_vars

\* --------------------------------------------------------------- claims
Returned == pc \in {"returned", "revise", "groupby", "assert_error", "done"}
Revised == pc \in {"groupby", "assert_error", "done"}
RequestFailed == Len(posts) > Len(id_name_map_batches)

IdsOf(df) == Range(Column(df, "drugbank_id"))
NoDuplicates(s) == \A i, j \in DOMAIN s : s[i] = s[j] => i = j

RECURSIVE Concat(_)
Concat(ss) == IF ss = <<>> THEN <<>> ELSE Head(ss) \o Concat(Tail(ss))

DictPairs(d) == {<<k, d[k]>> : k \in DOMAIN d}
PairsOf(df) == {<<df[i].drug_name, df[i].drugbank_id>> : i \in DOMAIN df}
OneToOneRelation(R) == \A p, q \in R : (p[1] = q[1]) <=> (p[2] = q[2])

\* C1: with a service that answers an identifier the same way in every
\* request, the mapping that batch_query_drugbank_names returns has the keys
\* and values of one unbatched lookup of the whole list.
C1_BatchedEqualsUnbatched ==
    Returned => id_name_map = query_drugbank_names(drugbank_ids)

C1_Witness ==
    /\ pc = "returned"
    /\ Len(id_name_map_batches) >= 2
    /\ ~NoDuplicates(drugbank_ids)
    /\ \E k \in DOMAIN id_name_map : id_name_map[k] = None
    /\ \E k \in DOMAIN id_name_map : id_name_map[k] # None

\* C2: after name correction a row whose drugbank_id the service reported
\* as not found still has its original drug_name (equivalently, only rows
\* whose identifier was resolved to a name have a changed drug_name).
C2_NotFoundKeepsOriginalName ==
    Revised =>
        \A i \in DOMAIN csv :
            svc[csv[i].drugbank_id] = None
                => repoDB_df[i].drug_name = csv[i].drug_name

\* C3: documents are emitted only after the one-to-one check has passed,
\* and whenever the corrected table pairs one drugbank_id with two values of
\* drug_name or one value of drug_name with two drugbank_ids the run ends in
\* the assertion error with no document emitted.
C3_BrokenOneToOneIsFatal ==
    /\ docs # <<>> => (pc \in {"groupby", "done"} /\ one_to_one)
    /\ (Revised /\ ~OneToOneRelation(PairsOf(repoDB_df)))
          => (pc = "assert_error" /\ docs = <<>>)

\* C4: when load_data has run to completion, every document lists as many
\* indications as the input has rows with the document's _id.
C4_IndicationCount ==
    pc = "done" =>
        \A k \in DOMAIN docs :
            Len(docs[k].indications)
                = Cardinality({i \in DOMAIN csv : csv[i].drugbank_id = docs[k]._id})

C4_Witness ==
    /\ pc = "done"
    /\ Len(docs) >= 2
    /\ \E k \in DOMAIN docs : Len(docs[k].indications) >= 2

\* C5: when load_data has run to completion, every distinct drugbank_id of
\* the input is the _id of exactly one document and every document's _id is
\* a drugbank_id of the input.
C5_OneDocumentPerIdentifier ==
    pc = "done" =>
        /\ \A id \in IdsOf(csv) :
              Cardinality({k \in DOMAIN docs : docs[k]._id = id}) = 1
        /\ \A k \in DOMAIN docs : docs[k]._id \in IdsOf(csv)

\* C6: with a positive batch size, no POST carries more identifiers than
\* the batch size.
C6_PostAtMostBatchSize ==
    batch_size # NoBatchSize =>
        \A r \in DOMAIN posts : Len(posts[r]) <= batch_size

C6_Witness ==
    /\ batch_size >= 2
    /\ Len(posts) >= 2
    /\ Len(posts[1]) = batch_size
    /\ Len(drugbank_ids) > batch_size

\* C7: once a request has failed the run has ended in the HTTP error: the
\* failed request is the last one issued, no mapping has been returned, the
\* table is uncorrected and no document has been emitted.
C7_HttpErrorIsFatal ==
    RequestFailed =>
        /\ pc = "http_error"
        /\ Len(posts) = Len(id_name_map_batches) + 1
        /\ id_name_map = EmptyDict
        /\ repoDB_df = csv
        /\ docs = <<>>

C7_Witness ==
    /\ pc = "http_error"
    /\ caller = "load_data"
    /\ view
    /\ Len(id_name_map_batches) >= 1
    /\ \E i \in DOMAIN csv : csv[i].drug_name # id_name_map_batches[1][csv[i].drugbank_id]

\* C8: when revise_drugbank_name has returned, the table has the distinct
\* drugbank_id values of the input table.
C8_IdentifiersUnchanged ==
    pc \in {"groupby", "done"} => IdsOf(repoDB_df) = IdsOf(csv)

C8_Witness ==
    /\ pc = "groupby"
    /\ view
    /\ repoDB_df # csv
    /\ Cardinality(IdsOf(csv)) >= 2

\* C9 as stated: the batches concatenated in order are the input list, no
\* identifier is a key of two batch results, and the returned mapping is
\* the union of the batch results.
CleanPartition ==
    /\ Concat(drugbank_id_batches) = drugbank_ids
    /\ \A i, j \in DOMAIN id_name_map_batches :
          i # j => DOMAIN id_name_map_batches[i] \cap DOMAIN id_name_map_batches[j] = {}
    /\ Returned =>
          DictPairs(id_name_map)
              = UNION {DictPairs(id_name_map_batches[i]) : i \in DOMAIN id_name_map_batches}

C9_BatchesPartitionCleanly == CleanPartition

\* C9 amended: revise_drugbank_name passes a list without repeated
\* identifiers, and for every list without repeated identifiers the batches
\* concatenated in order are the input list, no identifier is a key of two
\* batch results, and the returned mapping is the union of the batch results.
C9_DistinctIdsPartitionCleanly ==
    /\ caller = "load_data" => NoDuplicates(drugbank_ids)
    /\ NoDuplicates(drugbank_ids) => CleanPartition

C9_Witness ==
    /\ pc = "returned"
    /\ NoDuplicates(drugbank_ids)
    /\ Len(id_name_map_batches) >= 2
    /\ Len(drugbank_ids) % batch_size # 0

\* C10: is_one_to_one answers True exactly when the distinct
\* (drug_name, drugbank_id) pairs of the table it is given form a one-to-one
\* relation, the empty table and missing values included.
C10_IsOneToOneDecidesRelation ==
    Revised => (one_to_one <=> OneToOneRelation(PairsOf(repoDB_df)))

====
